---- MODULE Spec2Model ----
(***************************************************************************)
(* A model of yurt's retry engine (yurt/util.py), config store             *)
(* (yurt/config.py) and port forwarding negotiation (yurt/vboxmanage.py).  *)
(***************************************************************************)
EXTENDS Integers, Sequences, FiniteSets, TLC

(* ------------------------------ bounds --------------------------------- *)
\* how many members of the Key enumeration the model draws keys from
NumKeys == 2
\* a write that fails while dumping leaves at most this many tokens in the file
MaxCut == 1
\* the largest retries argument retry is called with
MaxRetries == 3
\* how many ports from the bottom of the pool random.randrange is seen to pick
\* (the top port of the pool is always among the picks)
MaxPorts == 2
\* how many frames the spinner is seen to render during one command
MaxFrames == 2

(* --------------------------- JSON documents ---------------------------- *)
\* Python values json.load can return.  None and JSON null are the same value.
None == [t |-> "null", s |-> "", m |-> <<>>]
JStr(s) == [t |-> "str", s |-> s, m |-> <<>>]
\* a dict: its items in insertion order, each [k |-> name, v |-> value]
JObj(items) == [t |-> "obj", s |-> "", m |-> items]

\* The text of the file, as the sequence of its lexical tokens.
LBRACE == [t |-> "lbrace", s |-> ""]
RBRACE == [t |-> "rbrace", s |-> ""]
COLON == [t |-> "colon", s |-> ""]
COMMA == [t |-> "comma", s |-> ""]
NULLTOK == [t |-> "null", s |-> ""]
STRTOK(s) == [t |-> "str", s |-> s]

\* class Key(Enum): the members, serialised by name
KeyNames == <<"vm_name", "interface", "interface_ip_address",
              "interface_netmask", "ssh_port", "is_lxd_initialized">>
Key == {KeyNames[i] : i \in (Len(KeyNames) - NumKeys + 1)..Len(KeyNames)}
\* the string values set_config is called with
Values == {"4050", "4060"}

\* dict.__contains__
HasKey(items, k) == \E i \in 1..Len(items) : items[i].k = k

\* dict.get(k, None)
DictGet(items, k) ==
    IF HasKey(items, k)
    THEN items[CHOOSE i \in 1..Len(items) : items[i].k = k].v
    ELSE None

\* an assignment that never overwrites a key the dict already has
DictSetKeepsOld(items, k, v) ==
    IF HasKey(items, k) THEN items ELSE Append(items, [k |-> k, v |-> v])

\* d[k] = v : an existing key keeps its position, a new key is appended
DictSet(items, k, v) ==
    IF HasKey(items, k)
    THEN [i \in 1..Len(items) |->
            IF items[i].k = k THEN [k |-> k, v |-> v] ELSE items[i]]
    ELSE Append(items, [k |-> k, v |-> v])

\* json.dump: the chunks JSONEncoder.iterencode yields for a value
RECURSIVE json_dump(_)
RECURSIVE dump_items(_, _)
dump_items(items, i) ==
    IF i > Len(items) THEN <<>>
    ELSE (IF i > 1 THEN <<COMMA>> ELSE <<>>)
         \o <<STRTOK(items[i].k), COLON>> \o json_dump(items[i].v)
         \o dump_items(items, i + 1)
json_dump(v) ==
    IF v.t = "str" THEN <<STRTOK(v.s)>>
    ELSE IF v.t = "null" THEN <<NULLTOK>>
    ELSE <<LBRACE>> \o dump_items(v.m, 1) \o <<RBRACE>>

\* json.load: recursive descent over the tokens; ok = FALSE is JSONDecodeError
ParseFail == [ok |-> FALSE, val |-> None, nxt |-> 0]
RECURSIVE ParseValue(_, _)
RECURSIVE ParseMembers(_, _, _)
ParseMembers(toks, i, acc) ==
    IF i + 1 > Len(toks) THEN ParseFail
    ELSE IF toks[i].t # "str" \/ toks[i + 1].t # "colon" THEN ParseFail
    ELSE LET r == ParseValue(toks, i + 2) IN
         IF ~r.ok THEN ParseFail
         ELSE IF r.nxt > Len(toks) THEN ParseFail
         ELSE LET acc2 == DictSet(acc, toks[i].s, r.val) IN
              IF toks[r.nxt].t = "rbrace"
              THEN [ok |-> TRUE, val |-> JObj(acc2), nxt |-> r.nxt + 1]
              ELSE IF toks[r.nxt].t = "comma"
              THEN ParseMembers(toks, r.nxt + 1, acc2)
              ELSE ParseFail
ParseValue(toks, i) ==
    IF i > Len(toks) THEN ParseFail
    ELSE IF toks[i].t = "str"
    THEN [ok |-> TRUE, val |-> JStr(toks[i].s), nxt |-> i + 1]
    ELSE IF toks[i].t = "null"
    THEN [ok |-> TRUE, val |-> None, nxt |-> i + 1]
    ELSE IF toks[i].t = "lbrace"
    THEN IF i + 1 <= Len(toks) /\ toks[i + 1].t = "rbrace"
         THEN [ok |-> TRUE, val |-> JObj(<<>>), nxt |-> i + 2]
         ELSE ParseMembers(toks, i + 1, <<>>)
    ELSE ParseFail
json_load(toks) ==
    LET r == ParseValue(toks, 1) IN
    IF r.ok /\ r.nxt = Len(toks) + 1 THEN r ELSE ParseFail

\* bool(x) for the values json.load returns
Truthy(v) ==
    IF v.t = "null" THEN FALSE
    ELSE IF v.t = "str" THEN v.s # ""
    ELSE Len(v.m) > 0

(* ------------------------------ state ---------------------------------- *)
VARIABLES
    fs,       \* config_dir and _config_file: [dir, file, content]
    before,   \* fs as it was when the last config operation was called
    lastOp,   \* the last config operation, its faults and its outcome
    rpc,      \* retry: where the call is ("idle", "call", "sleep", "returned", "raised")
    rn,       \* retry: the retries argument it was called with
    retries,  \* retry: the local variable retries
    rlog,     \* retry: the invocations of fn and the waits so far, in order
    rout,     \* retry: the value returned or the exception raised
    npc,      \* _setUpPortForwarding: where the call is
    service,  \* [ruleName, guestPort] of the service being forwarded
    initialHostPort,                   \* its argument: the remembered port
    hostPort, retryCount, connected,   \* its local variables
    natRules, \* the host ports the VM's NAT table forwards under ruleName
    nlog,     \* the commands run and the probes made by the current call, in order
    nout,     \* what the call returned or raised
    mpc,           \* run: where the calling thread is
    show_spinner,  \* run: its argument
    capture_output,\* run: the keyword argument handed on to _run
    proc,          \* how the process of the command ended, once it has
    cmd_future,    \* the Future of the _run task: [state, outcome, spinnerWas]
    spc,           \* where the _async_spinner task is
    stderr,        \* what _render_spinner has printed so far, in order
    result         \* what run returns or raises
                   \* (before it has: what the with block is leaving with)

configVars == <<fs, before, lastOp>>
retryVars == <<rpc, rn, retries, rlog, rout>>
negVars == <<npc, service, initialHostPort, hostPort, retryCount, connected, natRules, nlog, nout>>
runVars == <<mpc, show_spinner, capture_output, proc, cmd_future, spc, stderr, result>>
vars == <<configVars, retryVars, negVars, runVars>>

(* --------------------------- yurt/config.py ---------------------------- *)
Min(a, b) == IF a < b THEN a ELSE b

\* how an open-for-reading can fail
ReadFaults == {"none", "PermissionError"}
\* where a write can fail: creating the directory or file, opening the file for
\* writing (before it is truncated), or dumping (after it was truncated)
WriteFaultPoints == {"none", "ensure", "open", "dump"}
NoFault == [at |-> "none", n |-> 0]
\* a dump fault leaves a proper prefix of the text: its first n tokens at most
WriteFaults ==
    {[at |-> a, n |-> 0] : a \in WriteFaultPoints \ {"dump"}}
    \cup {[at |-> "dump", n |-> c] : c \in 0..MaxCut}

\* a creation step that forgets to test whether the file is there
_ensure_config_file_always_writes(f) ==
    [dir |-> TRUE, file |-> TRUE, content |-> <<LBRACE, RBRACE>>]

_ensure_config_file_exists(f) ==
    LET f1 == IF ~f.dir THEN [f EXCEPT !.dir = TRUE] ELSE f IN
    IF ~f1.file
    THEN [f1 EXCEPT !.file = TRUE, !.content = <<LBRACE, RBRACE>>]
    ELSE f1

\* a read that logs a malformed file and returns None instead of raising
_read_config_returns_none(f, rf) ==
    LET f1 == _ensure_config_file_exists(f) IN
    IF rf # "none"
    THEN [fs |-> f1, exc |-> rf, val |-> None]
    ELSE LET r == json_load(f1.content) IN
         [fs |-> f1, exc |-> "none", val |-> IF r.ok THEN r.val ELSE None]

\* returns the file system after the call, the exception raised and the value
_read_config(f, rf) ==
    LET f1 == _ensure_config_file_exists(f) IN
    IF rf = "none" /\ ~f1.file \* open(): FileNotFoundError
    THEN [fs |-> f1, exc |-> "ConfigReadException", val |-> None]
    ELSE IF rf # "none"
    THEN [fs |-> f1, exc |-> rf, val |-> None]
    ELSE LET r == json_load(f1.content) IN
         IF ~r.ok
         THEN [fs |-> f1, exc |-> "ConfigReadException", val |-> None]
         ELSE [fs |-> f1, exc |-> "none", val |-> r.val]

\* wf = [at, n]: the fault point, and the tokens written before a dump fault
_write_config(f, config, wf) ==
    IF wf.at = "ensure"
    THEN [fs |-> f, exc |-> "ConfigWriteException"]
    ELSE LET f1 == _ensure_config_file_exists(f) IN
         IF wf.at = "open" \/ ~f1.dir
         THEN [fs |-> f1, exc |-> "ConfigWriteException"]
         ELSE IF wf.at = "dump"
         THEN [fs |-> [f1 EXCEPT !.file = TRUE, !.content =
                          SubSeq(json_dump(config), 1,
                                 Min(wf.n, Len(json_dump(config)) - 1))],
               exc |-> "ConfigWriteException"]
         ELSE [fs |-> [f1 EXCEPT !.file = TRUE, !.content = json_dump(config)],
               exc |-> "none"]

get_config(f, key, rf) ==
    LET r == _read_config(f, rf) IN
    IF r.exc # "none" THEN [fs |-> r.fs, exc |-> r.exc, ret |-> None]
    ELSE IF ~Truthy(r.val) THEN [fs |-> r.fs, exc |-> "none", ret |-> None]
    ELSE IF r.val.t # "obj"
    THEN [fs |-> r.fs, exc |-> "AttributeError", ret |-> None]
    ELSE [fs |-> r.fs, exc |-> "none", ret |-> DictGet(r.val.m, key)]

\* a set that builds the new mapping from nothing instead of from a copy
set_config_fresh_dict(f, key, value, rf, wf, rbf) ==
    LET r == _read_config(f, rf) IN
    IF r.exc # "none" THEN [fs |-> r.fs, exc |-> r.exc]
    ELSE IF r.val = None THEN [fs |-> r.fs, exc |-> "none"]
    ELSE IF r.val.t # "obj" THEN [fs |-> r.fs, exc |-> "AttributeError"]
    ELSE LET old == r.val
             new == JObj(DictSet(<<>>, key, JStr(value)))
             w == _write_config(r.fs, new, wf)
         IN IF w.exc = "none" THEN [fs |-> w.fs, exc |-> "none"]
            ELSE LET rb == _write_config(w.fs, old, rbf) IN
                 [fs |-> rb.fs, exc |-> "ConfigWriteException"]

\* old = _read_config(); new = old.copy(); new[key.name] = value; write new,
\* and on ConfigWriteException write old back and raise
set_config(f, key, value, rf, wf, rbf) ==
    LET r == _read_config(f, rf) IN
    IF r.exc # "none" THEN [fs |-> r.fs, exc |-> r.exc]
    ELSE IF r.val = None THEN [fs |-> r.fs, exc |-> "none"]
    ELSE IF r.val.t # "obj" THEN [fs |-> r.fs, exc |-> "AttributeError"]
    ELSE LET old == r.val
             new == JObj(DictSet(old.m, key, JStr(value)))
             w == _write_config(r.fs, new, wf)
         IN IF w.exc = "none" THEN [fs |-> w.fs, exc |-> "none"]
            ELSE LET rb == _write_config(w.fs, old, rbf) IN
                 [fs |-> rb.fs, exc |-> "ConfigWriteException"]

\* a clear that only makes sure the file is there
clear_writes_nothing(f, wf) ==
    [fs |-> _ensure_config_file_exists(f), exc |-> "none"]

clear(f, wf) == _write_config(f, JObj(<<>>), wf)

(* ----------------------- config store: the machine --------------------- *)
NoOp == [op |-> "none", key |-> "", value |-> "", rf |-> "none",
         wf |-> "none", rbf |-> "none", exc |-> "none", ret |-> None]

\* what the config directory can hold when the program starts: nothing, no
\* file, a file the program wrote, or a file somebody edited
InitFs ==
    {[dir |-> FALSE, file |-> FALSE, content |-> <<>>],
     [dir |-> TRUE, file |-> FALSE, content |-> <<>>]}
    \cup {[dir |-> TRUE, file |-> TRUE, content |-> c] :
            c \in {<<LBRACE, RBRACE>>,
                   json_dump(JObj(<<[k |-> "ssh_port", v |-> JStr("4050")]>>)),
                   <<LBRACE>>,
                   <<NULLTOK>>,
                   <<STRTOK("4050")>>}}

ConfigStart ==
    /\ fs \in InitFs
    /\ before = fs
    /\ lastOp = NoOp

Get ==
    \E key \in Key, rf \in ReadFaults :
        LET r == get_config(fs, key, rf) IN
        /\ fs' = r.fs
        /\ before' = fs
        /\ lastOp' = [NoOp EXCEPT !.op = "get", !.key = key, !.rf = rf,
                                  !.exc = r.exc, !.ret = r.ret]
        /\ UNCHANGED <<retryVars, negVars, runVars>>

Set ==
    \E key \in Key, value \in Values, rf \in ReadFaults,
       wf \in WriteFaults, rbf \in WriteFaults :
        \* the read has created whatever was missing before the write starts
        /\ wf.at # "ensure" /\ rbf.at # "ensure"
        /\ wf.at = "none" => rbf = NoFault
        \* a write can fail only if set_config gets as far as writing
        /\ wf # NoFault => (/\ _read_config(fs, rf).exc = "none"
                            /\ _read_config(fs, rf).val.t = "obj")
        /\ LET r == set_config(fs, key, value, rf, wf, rbf) IN
           /\ fs' = r.fs
           /\ before' = fs
           /\ lastOp' = [NoOp EXCEPT !.op = "set", !.key = key, !.value = value,
                                     !.rf = rf, !.wf = wf.at, !.rbf = rbf.at,
                                     !.exc = r.exc]
        /\ UNCHANGED <<retryVars, negVars, runVars>>

Clear ==
    \E wf \in WriteFaults :
        /\ wf.at = "ensure" => ~(fs.dir /\ fs.file)
        /\ LET r == clear(fs, wf) IN
           /\ fs' = r.fs
           /\ before' = fs
           /\ lastOp' = [NoOp EXCEPT !.op = "clear", !.wf = wf.at, !.exc = r.exc]
        /\ UNCHANGED <<retryVars, negVars, runVars>>

(* ---------------------------- yurt/util.py ----------------------------- *)
\* the exceptions fn can raise, and the values it can return
Errors == {[kind |-> "YurtException", msg |-> "VM Not running"],
           [kind |-> "YurtException", msg |-> "Operation failed."],
           [kind |-> "YurtCalledProcessTimeout", msg |-> "Operation timed out."]}
Results == {"done"}
NoError == [kind |-> "", msg |-> ""]
\* retry(fn, retries=3, wait_time=3): the default wait
wait_time == 3

CallEvent(ok, val, err) == [e |-> "call", ok |-> ok, val |-> val, err |-> err, t |-> 0]
WaitEvent(t) == [e |-> "wait", ok |-> TRUE, val |-> "", err |-> NoError, t |-> t]
IdleOut == [kind |-> "none", val |-> "", err |-> NoError]

\* a retry loop that lets the counter reach zero before it gives up one late
RetriesLeftOffByOne(r) == r >= 0

\* except Exception as e: if retries > 0
RetriesLeft(r) == r > 0

\* raise e: the exception bound by the handler of the invocation that just failed
Reraised(log, e) == e

RetryIdle ==
    /\ rpc = "idle" /\ rn = 0 /\ retries = 0 /\ rlog = <<>> /\ rout = IdleOut

RetryStart ==
    /\ rn \in 0..MaxRetries
    /\ retries = rn
    /\ rpc = "call"
    /\ rlog = <<>>
    /\ rout = IdleOut

\* a loop that spends a retry on a successful invocation before it returns
FnReturnsRetriesFirst ==
    /\ rpc = "call"
    /\ \E val \in Results :
        /\ rlog' = Append(rlog, CallEvent(TRUE, val, NoError))
        /\ IF RetriesLeft(retries)
           THEN /\ retries' = retries - 1
                /\ rpc' = "sleep"
                /\ rout' = rout
           ELSE /\ retries' = retries
                /\ rpc' = "returned"
                /\ rout' = [kind |-> "returned", val |-> val, err |-> NoError]
    /\ UNCHANGED <<rn, configVars, negVars, runVars>>

\* try: return fn()
FnReturns ==
    /\ rpc = "call"
    /\ \E val \in Results :
        /\ rlog' = Append(rlog, CallEvent(TRUE, val, NoError))
        /\ rout' = [kind |-> "returned", val |-> val, err |-> NoError]
    /\ rpc' = "returned"
    /\ retries' = retries
    /\ UNCHANGED <<rn, configVars, negVars, runVars>>

\* except Exception as e: count the retry down and sleep, or raise e
FnRaises ==
    /\ rpc = "call"
    /\ \E e \in Errors :
        LET log2 == Append(rlog, CallEvent(FALSE, "", e)) IN
        /\ rlog' = log2
        /\ IF RetriesLeft(retries)
           THEN /\ retries' = retries - 1
                /\ rpc' = "sleep"
                /\ rout' = rout
           ELSE /\ retries' = retries
                /\ rpc' = "raised"
                /\ rout' = [kind |-> "raised", val |-> "", err |-> Reraised(log2, e)]
    /\ UNCHANGED <<rn, configVars, negVars, runVars>>

\* sleep_for(wait_time, show_spinner=True), then the loop invokes fn again
SleepFor ==
    /\ rpc = "sleep"
    /\ rlog' = Append(rlog, WaitEvent(wait_time))
    /\ rpc' = "call"
    /\ UNCHANGED <<rn, retries, rout, configVars, negVars, runVars>>

\* frames of _spinner, and the blanking line _render_spinner(None, clear=True) prints
frames == <<".  ", ".. ", "...", " ..", "  .", "   ">>
ClearLine == "clear"
\* the i-th next(spinner): the generator goes round the frames
NextFrame(i) == frames[((i - 1) % Len(frames)) + 1]
FramesIn(out) == Cardinality({i \in DOMAIN out : out[i] # ClearLine})

\* how a process can end, seen from subprocess.run(..., check=True, timeout=timeout)
ProcessEnds == {"exit0", "nonzero", "timeout", "interrupt"}
\* KeyboardInterrupt is raised in the main thread only: a task of the pool
\* sees the process exit or time out
TaskProcessEnds == ProcessEnds \ {"interrupt"}
Stdouts == {"", "Running"}
NoProc == [end |-> "none", stdout |-> ""]
Returned(v) == [kind |-> "returned", val |-> v, err |-> NoError]
Raised(k, m) == [kind |-> "raised", val |-> None, err |-> [kind |-> k, msg |-> m]]
NoResult == [kind |-> "none", val |-> None, err |-> NoError]
NoFuture == [state |-> "none", outcome |-> NoResult, spinnerWas |-> "none"]

\* a _run that lets KeyboardInterrupt through
_run_reraises_interrupt(p, capture) ==
    CASE p.end = "exit0" -> Returned(IF capture THEN JStr(p.stdout) ELSE None)
      [] p.end = "nonzero" -> Raised("YurtCalledProcessException", "Operation failed.")
      [] p.end = "timeout" -> Raised("YurtCalledProcessTimeout", "Operation timed out.")
      [] p.end = "interrupt" -> Raised("KeyboardInterrupt", "")

\* _run(cmd, capture_output=capture): return res.stdout, or the except clauses
_run(p, capture) ==
    CASE p.end = "exit0" -> Returned(IF capture THEN JStr(p.stdout) ELSE None)
      [] p.end = "nonzero" -> Raised("YurtCalledProcessException", "Operation failed.")
      [] p.end = "timeout" -> Raised("YurtCalledProcessTimeout", "Operation timed out.")
      [] p.end = "interrupt" -> Returned(None)

RunIdle ==
    /\ mpc = "idle" /\ show_spinner = FALSE /\ capture_output = TRUE
    /\ proc = NoProc /\ cmd_future = NoFuture /\ spc = "none"
    /\ stderr = <<>> /\ result = NoResult

\* run(cmd, show_spinner, capture_output=...) is called
RunStart ==
    /\ mpc = "called"
    /\ show_spinner \in BOOLEAN
    /\ capture_output \in BOOLEAN
    /\ proc = NoProc /\ cmd_future = NoFuture /\ spc = "none"
    /\ stderr = <<>> /\ result = NoResult

\* if show_spinner: ... else: return _run(cmd, **kwargs)
RunBranch ==
    /\ mpc = "called"
    /\ IF show_spinner
       THEN /\ mpc' = "submit_run"
            /\ UNCHANGED <<proc, result>>
       ELSE \E end \in ProcessEnds, out \in Stdouts :
            /\ proc' = [end |-> end, stdout |-> out]
            /\ result' = _run(proc', capture_output)
            /\ mpc' = "done"
    /\ UNCHANGED <<show_spinner, capture_output, cmd_future, spc, stderr,
                   configVars, retryVars, negVars>>

\* cmd_future = executor.submit(_run, cmd, **kwargs)
SubmitRun ==
    /\ mpc = "submit_run"
    /\ cmd_future' = [cmd_future EXCEPT !.state = "pending"]
    /\ mpc' = "submit_spinner"
    /\ UNCHANGED <<show_spinner, capture_output, proc, spc, stderr, result,
                   configVars, retryVars, negVars>>

\* executor.submit(_async_spinner, cmd_future)
SubmitSpinner ==
    /\ mpc = "submit_spinner"
    /\ spc' = "pending"
    /\ mpc' = "result"
    /\ UNCHANGED <<show_spinner, capture_output, proc, cmd_future, stderr, result,
                   configVars, retryVars, negVars>>

\* return cmd_future.result(): blocks until the Future is finished, then
\* leaves the with block with its value or its exception
FutureResult ==
    /\ mpc = "result"
    /\ cmd_future.state = "finished"
    /\ result' = cmd_future.outcome
    /\ mpc' = "exit"
    /\ UNCHANGED <<show_spinner, capture_output, proc, cmd_future, spc, stderr,
                   configVars, retryVars, negVars>>

\* a manual interruption while the main thread waits in cmd_future.result():
\* KeyboardInterrupt leaves the with block
MainInterrupt ==
    /\ mpc = "result"
    /\ result' = Raised("KeyboardInterrupt", "")
    /\ mpc' = "exit"
    /\ UNCHANGED <<show_spinner, capture_output, proc, cmd_future, spc, stderr,
                   configVars, retryVars, negVars>>

\* an executor whose __exit__ does not wait for its tasks
ExecutorExitNoWait ==
    /\ mpc = "exit"
    /\ mpc' = "done"
    /\ UNCHANGED <<show_spinner, capture_output, proc, cmd_future, spc, stderr,
                   result, configVars, retryVars, negVars>>

\* ThreadPoolExecutor.__exit__: shutdown(wait=True) joins the worker threads,
\* then the value is returned or the exception goes on
ExecutorExit ==
    /\ mpc = "exit"
    /\ cmd_future.state = "finished"
    /\ spc = "done"
    /\ mpc' = "done"
    /\ UNCHANGED <<show_spinner, capture_output, proc, cmd_future, spc, stderr,
                   result, configVars, retryVars, negVars>>

\* a worker thread takes the _run task
RunTaskStart ==
    /\ cmd_future.state = "pending"
    /\ cmd_future' = [cmd_future EXCEPT !.state = "running"]
    /\ UNCHANGED <<mpc, show_spinner, capture_output, proc, spc, stderr, result,
                   configVars, retryVars, negVars>>

\* the process ends and _run returns or raises into the Future
RunTaskEnd ==
    /\ cmd_future.state = "running"
    /\ \E end \in TaskProcessEnds, out \in Stdouts :
        /\ proc' = [end |-> end, stdout |-> out]
        /\ cmd_future' = [state |-> "finished",
                          outcome |-> _run(proc', capture_output),
                          spinnerWas |-> spc]
    /\ UNCHANGED <<mpc, show_spinner, capture_output, spc, stderr, result,
                   configVars, retryVars, negVars>>

\* a worker thread takes the _async_spinner task: _render_spinner(None, clear=True)
SpinnerClearFirst ==
    /\ spc = "pending"
    /\ stderr' = Append(stderr, ClearLine)
    /\ spc' = "test"
    /\ UNCHANGED <<mpc, show_spinner, capture_output, proc, cmd_future, result,
                   configVars, retryVars, negVars>>

\* while not worker_future.done()
SpinnerTest ==
    /\ spc = "test"
    /\ IF cmd_future.state = "finished"
       THEN spc' = "clear"
       ELSE /\ FramesIn(stderr) < MaxFrames
            /\ spc' = "render"
    /\ UNCHANGED <<mpc, show_spinner, capture_output, proc, cmd_future, stderr,
                   result, configVars, retryVars, negVars>>

\* _render_spinner(spinner)
SpinnerRender ==
    /\ spc = "render"
    /\ stderr' = Append(stderr, NextFrame(FramesIn(stderr) + 1))
    /\ spc' = "sleep"
    /\ UNCHANGED <<mpc, show_spinner, capture_output, proc, cmd_future, result,
                   configVars, retryVars, negVars>>

\* time.sleep(frame_step)
SpinnerSleep ==
    /\ spc = "sleep"
    /\ spc' = "test"
    /\ UNCHANGED <<mpc, show_spinner, capture_output, proc, cmd_future, stderr,
                   result, configVars, retryVars, negVars>>

\* after the loop: _render_spinner(None, clear=True)
SpinnerClearLast ==
    /\ spc = "clear"
    /\ stderr' = Append(stderr, ClearLine)
    /\ spc' = "done"
    /\ UNCHANGED <<mpc, show_spinner, capture_output, proc, cmd_future, result,
                   configVars, retryVars, negVars>>

(* ------------------------- yurt/vboxmanage.py -------------------------- *)
\* retryCount, retryWaitTime = (5, 7)
RetryCountStart == 5
\* lowPort, highPort = (4000, 4099)
lowPort == 4000
highPort == 4099
\* a config that remembers no port: config.get(...) is None
NoPort == 0

\* setUpSSHPortForwarding, setUpLXDPortForwarding: rule name and guest port
Services == {[ruleName |-> "ssh", guestPort |-> 22],
             [ruleName |-> "lxd", guestPort |-> 8443]}

\* random.randrange(lowPort, highPort): the ports lo .. hi - 1
RandRange(lo, hi) == {p \in lo..(hi - 1) : p < lo + MaxPorts \/ p = hi - 1}

\* the ports a config can remember from an earlier session
RememberedPorts == {NoPort} \cup RandRange(lowPort, highPort)

\* a start that forgets the remembered port
StartPortIgnoresRemembered(remembered) == lowPort

\* hostPort = initialHostPort or lowPort
StartPort(remembered) ==
    IF remembered # NoPort THEN remembered ELSE lowPort

\* a loop that gives up while one attempt is still left
LoopConditionShort(rc, conn) == rc > 1 /\ ~conn

\* while (retryCount > 0) and not connected
LoopCondition(rc, conn) == rc > 0 /\ ~conn

Ev(e, port, ok) == [e |-> e, port |-> port, ok |-> ok]
NoOut == [kind |-> "none", port |-> NoPort, msg |-> ""]

\* VBoxManage controlvm natpf1 delete <rule>: it deletes the rule, or fails
\* (always when there is no such rule) and leaves the table as it was
RemoveOutcomes(nat) ==
    {[ok |-> FALSE, nat |-> nat]}
    \cup (IF nat # {} THEN {[ok |-> TRUE, nat |-> {}]} ELSE {})

\* a hypervisor that adds a rule next to one of the same name
AddOutcomesKeepsOld(nat, port) ==
    {[ok |-> FALSE, nat |-> nat], [ok |-> TRUE, nat |-> nat \cup {port}]}

\* VBoxManage controlvm natpf1 "<rule>,tcp,,<hostPort>,,<guestPort>": it adds
\* the rule, or fails (always when a rule of this name exists)
AddOutcomes(nat, port) ==
    {[ok |-> FALSE, nat |-> nat]}
    \cup (IF nat = {} THEN {[ok |-> TRUE, nat |-> {port}]} ELSE {})

NegIdle ==
    /\ npc = "idle" /\ service = [ruleName |-> "ssh", guestPort |-> 22]
    /\ initialHostPort = NoPort
    /\ hostPort = NoPort /\ retryCount = 0 /\ connected = FALSE
    /\ natRules = {} /\ nlog = <<>> /\ nout = NoOut

NegStart ==
    /\ npc = "idle"
    /\ service \in Services
    /\ initialHostPort = NoPort
    /\ hostPort = NoPort /\ retryCount = 0 /\ connected = FALSE
    /\ natRules \in {{}} \cup {{p} : p \in RandRange(lowPort, highPort)}
    /\ nlog = <<>>
    /\ nout = NoOut

\* lines 91-93: a call of _setUpPortForwarding, the first of a session or a
\* later one
Call ==
    /\ npc \in {"idle", "done"}
    /\ \E remembered \in RememberedPorts :
        /\ initialHostPort' = remembered
        /\ hostPort' = StartPort(remembered)
    /\ retryCount' = RetryCountStart
    /\ connected' = FALSE
    /\ nlog' = <<>>
    /\ nout' = NoOut
    /\ npc' = "probe0"
    /\ UNCHANGED <<service, natRules, configVars, retryVars, runVars>>

\* line 94: connected = isServiceAvailableOnPort(hostPort, config)
FirstProbe ==
    /\ npc = "probe0"
    /\ \E answer \in BOOLEAN :
        /\ connected' = answer
        /\ nlog' = Append(nlog, Ev("probe", hostPort, answer))
    /\ npc' = "loop"
    /\ UNCHANGED <<service, initialHostPort, hostPort, retryCount, natRules, nout,
                   configVars, retryVars, runVars>>

\* a loop that removes the rule on its first pass only
RemoveRuleFirstPassOnly ==
    /\ npc = "loop"
    /\ LoopCondition(retryCount, connected)
    /\ IF retryCount = RetryCountStart
       THEN \E r \in RemoveOutcomes(natRules) :
              /\ natRules' = r.nat
              /\ nlog' = Append(nlog, Ev("remove", NoPort, r.ok))
       ELSE UNCHANGED <<natRules, nlog>>
    /\ npc' = "add"
    /\ UNCHANGED <<service, initialHostPort, hostPort, retryCount, connected, nout,
                   configVars, retryVars, runVars>>

\* lines 96-107: the loop is entered and removeRuleCmd runs; a failure is ignored
RemoveRule ==
    /\ npc = "loop"
    /\ LoopCondition(retryCount, connected)
    /\ \E r \in RemoveOutcomes(natRules) :
        /\ natRules' = r.nat
        /\ nlog' = Append(nlog, Ev("remove", NoPort, r.ok))
    /\ npc' = "add"
    /\ UNCHANGED <<service, initialHostPort, hostPort, retryCount, connected, nout,
                   configVars, retryVars, runVars>>

\* a loop that treats a failed addRuleCmd like a failed removeRuleCmd
AddRuleSwallowsFailure ==
    /\ npc = "add"
    /\ \E r \in AddOutcomes(natRules, hostPort) :
        /\ natRules' = r.nat
        /\ nlog' = Append(nlog, Ev("add", hostPort, r.ok))
    /\ npc' = "probe"
    /\ UNCHANGED <<service, initialHostPort, hostPort, retryCount, connected,
                   nout, configVars, retryVars, runVars>>

\* lines 109-110, 118-120: addRuleCmd runs; a failure ends the call
AddRule ==
    /\ npc = "add"
    /\ \E r \in AddOutcomes(natRules, hostPort) :
        /\ natRules' = r.nat
        /\ nlog' = Append(nlog, Ev("add", hostPort, r.ok))
        /\ IF r.ok
           THEN npc' = "probe" /\ nout' = nout
           ELSE /\ npc' = "done"
                /\ nout' = [kind |-> "raised", port |-> NoPort,
                            msg |-> "An error occurred while setting up SSH"]
    /\ UNCHANGED <<service, initialHostPort, hostPort, retryCount, connected,
                   configVars, retryVars, runVars>>

\* a loop that picks another port after every probe, reachable or not
ProbeReselectsAnyway ==
    /\ npc = "probe"
    /\ \E answer \in BOOLEAN, p \in RandRange(lowPort, highPort) :
        /\ connected' = answer
        /\ hostPort' = p
        /\ retryCount' = retryCount - 1
        /\ nlog' = nlog \o <<Ev("probe", hostPort, answer),
                             Ev("reselect", p, TRUE)>>
    /\ npc' = "loop"
    /\ UNCHANGED <<service, initialHostPort, natRules, nout, configVars, retryVars, runVars>>

\* a loop that probes the port it was started with, whatever rule it added
ProbeStartPort ==
    /\ npc = "probe"
    /\ \E answer \in BOOLEAN :
        /\ connected' = answer
        /\ IF ~answer
           THEN \E p \in RandRange(lowPort, highPort) :
                  /\ hostPort' = p
                  /\ retryCount' = retryCount - 1
                  /\ nlog' = nlog \o <<Ev("probe", nlog[1].port, answer),
                                       Ev("reselect", p, TRUE)>>
           ELSE /\ nlog' = Append(nlog, Ev("probe", nlog[1].port, answer))
                /\ UNCHANGED <<hostPort, retryCount>>
    /\ npc' = "loop"
    /\ UNCHANGED <<service, initialHostPort, natRules, nout, configVars, retryVars, runVars>>

\* lines 111-116: sleep, probe, and on an unreachable service pick another port
Probe ==
    /\ npc = "probe"
    /\ \E answer \in BOOLEAN :
        /\ connected' = answer
        /\ IF ~answer
           THEN \E p \in RandRange(lowPort, highPort) :
                  /\ hostPort' = p
                  /\ retryCount' = retryCount - 1
                  /\ nlog' = nlog \o <<Ev("probe", hostPort, answer),
                                       Ev("reselect", p, TRUE)>>
           ELSE /\ nlog' = Append(nlog, Ev("probe", hostPort, answer))
                /\ UNCHANGED <<hostPort, retryCount>>
    /\ npc' = "loop"
    /\ UNCHANGED <<service, initialHostPort, natRules, nout, configVars, retryVars, runVars>>

\* an end of the call that hands back hostPort whether or not it was reached
ExitAlwaysReturns ==
    /\ npc = "loop"
    /\ ~LoopCondition(retryCount, connected)
    /\ nout' = [kind |-> "returned", port |-> hostPort, msg |-> ""]
    /\ npc' = "done"
    /\ UNCHANGED <<service, initialHostPort, hostPort, retryCount, connected, natRules, nlog,
                   configVars, retryVars, runVars>>

\* an end of the call that takes the rule out again before it gives up
ExitRemovesRule ==
    /\ npc = "loop"
    /\ ~LoopCondition(retryCount, connected)
    /\ nout' = IF connected
               THEN [kind |-> "returned", port |-> hostPort, msg |-> ""]
               ELSE [kind |-> "raised", port |-> hostPort,
                     msg |-> "service in guest does not appear to be available"]
    /\ IF connected
       THEN UNCHANGED <<natRules, nlog>>
       ELSE /\ natRules' = {}
            /\ nlog' = Append(nlog, Ev("remove", NoPort, TRUE))
    /\ npc' = "done"
    /\ UNCHANGED <<service, initialHostPort, hostPort, retryCount, connected,
                   configVars, retryVars, runVars>>

\* lines 122-127: the loop is left; return hostPort or raise
Exit ==
    /\ npc = "loop"
    /\ ~LoopCondition(retryCount, connected)
    /\ nout' = IF connected
               THEN [kind |-> "returned", port |-> hostPort, msg |-> ""]
               ELSE [kind |-> "raised", port |-> hostPort,
                     msg |-> "service in guest does not appear to be available"]
    /\ npc' = "done"
    /\ UNCHANGED <<service, initialHostPort, hostPort, retryCount, connected, natRules, nlog,
                   configVars, retryVars, runVars>>

ConfigNext == Get \/ Set \/ Clear

ConfigIdle ==
    /\ fs = [dir |-> FALSE, file |-> FALSE, content |-> <<>>]
    /\ before = fs
    /\ lastOp = NoOp

ConfigInit == ConfigStart /\ RetryIdle /\ NegIdle /\ RunIdle

ConfigSpec == ConfigInit /\ [][ConfigNext]_vars

RetryNext == FnReturns \/ FnRaises \/ SleepFor

RetryInit == RetryStart /\ ConfigIdle /\ NegIdle /\ RunIdle

RetrySpec == RetryInit /\ [][RetryNext]_vars

NegNext == Call \/ FirstProbe \/ RemoveRule \/ AddRule \/ Probe \/ Exit

NegInit == NegStart /\ ConfigIdle /\ RetryIdle /\ RunIdle

NegSpec == NegInit /\ [][NegNext]_vars

RunNext ==
    \/ RunBranch \/ SubmitRun \/ SubmitSpinner \/ FutureResult \/ MainInterrupt
    \/ ExecutorExit \/ RunTaskStart \/ RunTaskEnd
    \/ SpinnerClearFirst \/ SpinnerTest \/ SpinnerRender \/ SpinnerSleep
    \/ SpinnerClearLast

RunInit == RunStart /\ ConfigIdle /\ RetryIdle /\ NegIdle

RunSpec == RunInit /\ [][RunNext]_vars

(* ------------------------- retry: properties --------------------------- *)
Calls(log) == Cardinality({i \in DOMAIN log : log[i].e = "call"})
Waits(log) == Cardinality({i \in DOMAIN log : log[i].e = "wait"})
AllCallsFailed(log) == \A i \in DOMAIN log : log[i].e = "call" => ~log[i].ok
RetryEnded == rpc \in {"returned", "raised"}

\* C1: retry(fn, n, w) invokes fn at least once and at most n+1 times; when
\* every invocation fails it invokes fn exactly n+1 times and raises the
\* exception of the final invocation, kind and message; n = 0 gives exactly
\* one invocation and no wait.
C1_RetryBound ==
    /\ Calls(rlog) <= rn + 1
    /\ RetryEnded => Calls(rlog) >= 1
    /\ (RetryEnded /\ AllCallsFailed(rlog)) =>
          /\ rpc = "raised"
          /\ Calls(rlog) = rn + 1
          /\ rlog[Len(rlog)].e = "call"
          /\ rout.kind = "raised"
          /\ rout.err = rlog[Len(rlog)].err
    /\ rpc = "raised" => AllCallsFailed(rlog)
    /\ (RetryEnded /\ rn = 0) => (Calls(rlog) = 1 /\ Waits(rlog) = 0)

\* every attempt of a retry(fn, 2, w) failed, the last one unlike the first
C1_Witness ==
    /\ rpc = "raised"
    /\ rn = 2
    /\ Calls(rlog) = 3
    /\ rlog[1].err # rlog[Len(rlog)].err
    /\ rout.err.kind = "YurtCalledProcessTimeout"

\* C20: retry returns the value of the first successful invocation and
\* invokes fn no more after it; exactly one wait of wait_time lies between a
\* failed invocation and the next; no wait follows the successful
\* invocation or the final failed one.
C20_RetryOrder ==
    /\ \A i \in DOMAIN rlog :
          (rlog[i].e = "call" /\ rlog[i].ok) =>
              /\ i = Len(rlog)
              /\ rpc = "returned"
              /\ rout = [kind |-> "returned", val |-> rlog[i].val, err |-> NoError]
    /\ \A i \in DOMAIN rlog :
          (rlog[i].e = "call" /\ i < Len(rlog)) =>
              /\ rlog[i + 1] = WaitEvent(wait_time)
              /\ i + 2 <= Len(rlog) => rlog[i + 2].e = "call"
    /\ \A i \in DOMAIN rlog :
          rlog[i].e = "wait" =>
              /\ i > 1
              /\ rlog[i - 1].e = "call"
              /\ ~rlog[i - 1].ok
    /\ RetryEnded =>
          /\ rlog[Len(rlog)].e = "call"
          /\ rlog[Len(rlog)].ok <=> rpc = "returned"
          /\ Waits(rlog) = Calls(rlog) - 1

\* the third invocation succeeded, after two failures and two waits
C20_Witness ==
    /\ rpc = "returned"
    /\ rn = 3
    /\ Calls(rlog) = 3
    /\ Waits(rlog) = 2
    /\ rlog[5].ok
    /\ rout.val = rlog[5].val

(* -------------------------- run: properties --------------------------- *)
\* C18: run with show_spinner returns or raises only after the _run task has
\* finished and the _async_spinner task has ended, and the last thing the
\* spinner printed is the blanking line; whether the command succeeded or
\* failed, and also when it finished before the spinner task started.
C18_ReturnsAfterBothTasks ==
    (mpc = "done" /\ show_spinner) =>
        /\ cmd_future.state = "finished"
        /\ spc = "done"
        /\ stderr # <<>>
        /\ stderr[Len(stderr)] = ClearLine
        /\ result.kind \in {"returned", "raised"}
        /\ result.err.kind # "KeyboardInterrupt" => result = cmd_future.outcome

\* the command failed before the spinner task had started, and run raised
\* once the spinner had printed its two blanking lines
C18_Witness ==
    /\ mpc = "done"
    /\ show_spinner
    /\ cmd_future.spinnerWas = "pending"
    /\ result.kind = "raised"
    /\ result.err.kind = "YurtCalledProcessException"
    /\ stderr = <<ClearLine, ClearLine>>

\* what _run hands back is decided by how the process ended
OutcomeFits(out, p, capture) ==
    /\ p.end \in ProcessEnds
    /\ p.end = "exit0" =>
          out = Returned(IF capture THEN JStr(p.stdout) ELSE None)
    /\ p.end = "nonzero" =>
          /\ out.kind = "raised"
          /\ out.err = [kind |-> "YurtCalledProcessException", msg |-> "Operation failed."]
    /\ p.end = "timeout" =>
          /\ out.kind = "raised"
          /\ out.err = [kind |-> "YurtCalledProcessTimeout", msg |-> "Operation timed out."]
    /\ p.end = "interrupt" =>
          /\ out.kind = "returned"
          /\ out.val = None

Count(log, e) == Cardinality({i \in DOMAIN log : log[i].e = e})
AllProbesUnreachable(log) == \A i \in DOMAIN log : log[i].e = "probe" => ~log[i].ok
AllAddsSucceeded(log) == \A i \in DOMAIN log : log[i].e = "add" => log[i].ok
Exhausted ==
    /\ npc = "done"
    /\ nout.kind = "raised"
    /\ nout.msg = "service in guest does not appear to be available"

\* C3: when every probe answers unreachable and every add-rule command
\* succeeds, the call ends with the exhaustion error after exactly
\* RetryCountStart attempts: RetryCountStart add-rule commands and that many,
\* or one fewer, remove-rule commands.
C3_Exhaustion ==
    (npc = "done" /\ AllProbesUnreachable(nlog) /\ AllAddsSucceeded(nlog)) =>
        /\ Exhausted
        /\ Count(nlog, "add") = RetryCountStart
        /\ Count(nlog, "reselect") = RetryCountStart
        /\ Count(nlog, "remove") \in {RetryCountStart, RetryCountStart - 1}

\* a call that was exhausted after trying the bottom and the top of the pool
C3_Witness ==
    /\ Exhausted
    /\ AllProbesUnreachable(nlog)
    /\ Count(nlog, "add") = RetryCountStart
    /\ \E i, j \in DOMAIN nlog :
        /\ nlog[i] = Ev("add", lowPort, TRUE)
        /\ nlog[j] = Ev("add", highPort - 1, TRUE)

\* C4: every add-rule command is preceded, in the same attempt and with no
\* other add-rule command in between, by a remove-rule command, whether or
\* not that remove-rule command failed.
C4_RuleHygiene ==
    \A i \in DOMAIN nlog :
        nlog[i].e = "add" => (i > 1 /\ nlog[i - 1].e = "remove")

\* two attempts in a row, the first with a remove-rule command that failed
C4_Witness ==
    /\ Count(nlog, "add") >= 2
    /\ \E i \in DOMAIN nlog :
        /\ i + 1 \in DOMAIN nlog
        /\ nlog[i] = Ev("remove", NoPort, FALSE)
        /\ nlog[i + 1].e = "add"
        /\ nlog[i + 1].ok
    /\ \E i \in DOMAIN nlog : nlog[i] = Ev("remove", NoPort, TRUE)

\* C5 as claimed: every probe of a host port h is preceded, in the same call,
\* by a successful add-rule command that maps h.
C5_AddBeforeEveryProbe ==
    \A i \in DOMAIN nlog :
        nlog[i].e = "probe" =>
            \E j \in 1..(i - 1) : nlog[j] = Ev("add", nlog[i].port, TRUE)

\* C5 as amended: the call opens with one probe of the starting port, before
\* any command; every later probe of a host port h comes right after a
\* successful add-rule command that maps h, which comes right after a
\* remove-rule command.
C5_AddBeforeLoopProbe ==
    /\ nlog # <<>> => nlog[1].e = "probe"
    /\ \A i \in DOMAIN nlog :
        (nlog[i].e = "probe" /\ i > 1) =>
            /\ i >= 3
            /\ nlog[i - 1] = Ev("add", nlog[i].port, TRUE)
            /\ nlog[i - 2].e = "remove"

\* a probe inside the loop, of a port picked after the starting port failed
C5_Witness ==
    \E i \in DOMAIN nlog :
        /\ i > 4
        /\ nlog[i].e = "probe"
        /\ nlog[i].port # nlog[1].port
        /\ nlog[i].ok

\* the last event of kind e in the log
LastOf(log, e) ==
    log[CHOOSE i \in DOMAIN log :
            log[i].e = e /\ \A j \in DOMAIN log : j > i => log[j].e # e]
\* [lowPort, highPort): the pool random.randrange draws from
Pool == lowPort..(highPort - 1)
\* every probe of the call answered as a service reachable on p alone would
OracleFor(p, log) ==
    \A i \in DOMAIN log : log[i].e = "probe" => (log[i].ok <=> log[i].port = p)

\* C12: a failed add-rule command ends the call at once with the error of the
\* add; no remove-rule or add-rule command, probe or reselection follows it,
\* however many attempts are left.
C12_AddFailureIsFatal ==
    \A i \in DOMAIN nlog :
        (nlog[i].e = "add" /\ ~nlog[i].ok) =>
            /\ i = Len(nlog)
            /\ npc = "done"
            /\ nout.kind = "raised"
            /\ nout.msg = "An error occurred while setting up SSH"

\* the add-rule command of a second attempt failed, with four attempts left
C12_Witness ==
    /\ npc = "done"
    /\ Count(nlog, "add") = 2
    /\ retryCount = RetryCountStart - 1
    /\ nlog[Len(nlog)].e = "add"
    /\ ~nlog[Len(nlog)].ok
    /\ nout.kind = "raised"

\* C13 as claimed: the port the exhaustion error names is the last-tried
\* port, the host port of the last add-rule command and of the last probe.
C13_ErrorNamesLastTriedPort ==
    Exhausted =>
        /\ nout.port = LastOf(nlog, "add").port
        /\ nout.port = LastOf(nlog, "probe").port

\* C14 as claimed: two attempts in a row never add the same host port: the
\* port of an add-rule command differs from the port of the add-rule command
\* before it, which was probed unreachable.
C14_PortChangesBetweenAttempts ==
    \A i, j \in DOMAIN nlog :
        (/\ i < j
         /\ nlog[i].e = "add"
         /\ nlog[j].e = "add"
         /\ \A m \in (i + 1)..(j - 1) : nlog[m].e # "add")
        => nlog[i].port # nlog[j].port

C16_FirstAttemptSuccess ==
    (nlog # <<>> /\ nlog[1].ok) =>
        /\ nlog[1] = Ev("probe",
                        IF initialHostPort # NoPort
                        THEN initialHostPort ELSE lowPort,
                        TRUE)
        /\ Count(nlog, "reselect") = 0
        /\ Count(nlog, "probe") = 1
        /\ npc = "done" =>
              /\ nout.kind = "returned"
              /\ nout.port = nlog[1].port

\* the call returned a remembered port that is not the bottom of the pool
C16_Witness ==
    /\ npc = "done"
    /\ initialHostPort = highPort - 1
    /\ nout.kind = "returned"
    /\ nout.port = highPort - 1
    /\ Len(nlog) = 1

C21_ReturnedPortWasReached ==
    (npc = "done" /\ nout.kind = "returned") =>
        /\ Count(nlog, "probe") >= 1
        /\ LastOf(nlog, "probe") = Ev("probe", nout.port, TRUE)
        /\ nlog[Len(nlog)] = Ev("probe", nout.port, TRUE)
        /\ \A i \in DOMAIN nlog : (nlog[i].e = "probe" /\ i < Len(nlog)) => ~nlog[i].ok

\* the call returned a port that an earlier probe of the same call had found
\* unreachable
C21_Witness ==
    /\ npc = "done"
    /\ nout.kind = "returned"
    /\ Count(nlog, "add") >= 2
    /\ \E i \in DOMAIN nlog : nlog[i] = Ev("probe", nout.port, FALSE)

\* C22: when the call fails by exhaustion no remove-rule command follows the
\* last add-rule command: the rule the final attempt added, for a port that
\* was then probed unreachable, is in the NAT table when the error is raised.
C22_RuleLeftBehind ==
    Exhausted =>
        /\ Count(nlog, "add") >= 1
        /\ \A i, j \in DOMAIN nlog :
              (nlog[i].e = "add" /\ j > i) => nlog[j].e # "remove" \/
                  \E m \in (j + 1)..Len(nlog) : nlog[m].e = "add"
        /\ LastOf(nlog, "add").ok
        /\ natRules = {LastOf(nlog, "add").port}
        /\ LastOf(nlog, "probe") = Ev("probe", LastOf(nlog, "add").port, FALSE)

\* the call gave up with the top port of the pool still forwarded, and its
\* error names another port
C22_Witness ==
    /\ Exhausted
    /\ Count(nlog, "add") = RetryCountStart
    /\ natRules = {highPort - 1}
    /\ nout.port # highPort - 1

(* ----------------------- config store: properties ---------------------- *)
\* what a read of f loads: the file as it is once a missing one was created
Loaded(f) == json_load(_ensure_config_file_exists(f).content)
\* the store holds a JSON object
ReadableStore(f) == Loaded(f).ok /\ Loaded(f).val.t = "obj"
EmptyObject == <<LBRACE, RBRACE>>
NoFaults(o) == o.rf = "none" /\ o.wf = "none" /\ o.rbf = "none"

\* C2 as claimed: when a write fails during set(k, v), whichever way it fails
\* (before or after the file was truncated, the rollback write failing too),
\* set raises ConfigWriteException and the file is left as it was, so
\* get(k0) still returns the v0 an earlier set(k0, v0) stored.
C2_WriteAtomicity ==
    \A k0 \in Key, v0 \in Values :
        (/\ lastOp.op = "set"
         /\ lastOp.wf # "none"
         /\ before.file
         /\ get_config(before, k0, "none").ret = JStr(v0))
        => /\ lastOp.exc = "ConfigWriteException"
           /\ fs = before
           /\ get_config(fs, k0, "none").exc = "none"
           /\ get_config(fs, k0, "none").ret = JStr(v0)

\* C6: on a store that holds a JSON object, a set(k, v) that succeeds,
\* followed by get(k), returns v; this covers a second set(k, v2).
C6_RoundTrip ==
    [][(/\ lastOp.op = "set"
        /\ lastOp.exc = "none"
        /\ ReadableStore(before)
        /\ lastOp'.op = "get"
        /\ lastOp'.key = lastOp.key
        /\ lastOp'.rf = "none")
       => (lastOp'.exc = "none" /\ lastOp'.ret = JStr(lastOp.value))]_vars

\* get returned "4060" for is_lxd_initialized from a store that two sets built
C6_Witness ==
    /\ lastOp.op = "get"
    /\ lastOp.key = "is_lxd_initialized"
    /\ lastOp.ret = JStr("4060")
    /\ Loaded(before).ok
    /\ Len(Loaded(before).val.m) = 2

\* C7: get(k) right after a clear() that succeeded returns None for every k,
\* and so does get(k) on any store that holds a JSON object without k (the
\* empty object too); neither raises.
C7_AbsentAfterClear ==
    [][(/\ lastOp'.op = "get"
        /\ lastOp'.rf = "none"
        /\ \/ (lastOp.op = "clear" /\ lastOp.exc = "none")
           \/ (ReadableStore(fs) /\ ~HasKey(Loaded(fs).val.m, lastOp'.key)))
       => (lastOp'.exc = "none" /\ lastOp'.ret = None)]_vars

\* a clear() that succeeded on a store that held keys
C7_Witness ==
    /\ lastOp.op = "clear"
    /\ lastOp.exc = "none"
    /\ ReadableStore(before)
    /\ Len(Loaded(before).val.m) > 0
    /\ fs.content = EmptyObject
    /\ \A k \in Key : get_config(fs, k, "none").ret = None

\* the initial read of the last set failed
SetReadFailed ==
    /\ lastOp.op = "set"
    /\ (lastOp.rf # "none" \/ ~Loaded(before).ok)

\* C8 as claimed: when its initial read fails, set returns normally and the
\* file is left as it was.
C8_SilentNoOp ==
    SetReadFailed =>
        (lastOp.exc = "none" /\ fs = _ensure_config_file_exists(before))

\* C8 as amended: when its initial read fails, set raises the read error
\* (ConfigReadException when the file is malformed) and writes nothing: the
\* file is left as it was.
C8_SetRaisesReadError ==
    SetReadFailed =>
        /\ lastOp.exc \in {"ConfigReadException", "PermissionError"}
        /\ lastOp.rf = "none" => lastOp.exc = "ConfigReadException"
        /\ fs = _ensure_config_file_exists(before)

\* set was called on a file cut short by a failed write
C8_Witness ==
    /\ lastOp.op = "set"
    /\ lastOp.rf = "none"
    /\ before.file
    /\ before.content \in {<<>>, <<LBRACE>>}
    /\ lastOp.exc = "ConfigReadException"
    /\ fs = before

\* C9: when the file exists and does not parse, get(k) raises
\* ConfigReadException for every k and leaves the file exactly as it was.
C9_MalformedIsHardError ==
    (/\ lastOp.op = "get"
     /\ lastOp.rf = "none"
     /\ before.file
     /\ ~json_load(before.content).ok)
    => (lastOp.exc = "ConfigReadException" /\ fs = before)

\* get was called on a file that holds a lone opening brace
C9_Witness ==
    /\ lastOp.op = "get"
    /\ lastOp.rf = "none"
    /\ before.file
    /\ before.content = <<LBRACE>>
    /\ lastOp.exc = "ConfigReadException"
    /\ fs.content = <<LBRACE>>

\* C10: with the directory or the file missing, an operation without faults
\* first creates both, the file holding the empty object: get returns None,
\* set stores its one key, clear leaves the empty object.  With the file in
\* place the creation step changes nothing, once or many times.
C10_LazyCreation ==
    /\ (lastOp.op # "none" /\ NoFaults(lastOp) /\ ~(before.dir /\ before.file)) =>
          /\ fs.dir /\ fs.file
          /\ lastOp.exc = "none"
          /\ lastOp.op = "get" => (lastOp.ret = None /\ fs.content = EmptyObject)
          /\ lastOp.op = "set" =>
                fs.content = json_dump(JObj(<<[k |-> lastOp.key,
                                               v |-> JStr(lastOp.value)]>>))
          /\ lastOp.op = "clear" => fs.content = EmptyObject
    /\ (lastOp.op = "get" /\ before.file) => fs = before
    /\ fs.file => _ensure_config_file_exists(fs) = fs
    /\ _ensure_config_file_exists(_ensure_config_file_exists(before))
          = _ensure_config_file_exists(before)

\* get was called with no config directory and found the empty object
C10_Witness ==
    /\ lastOp.op = "get"
    /\ ~before.dir
    /\ fs.dir /\ fs.file
    /\ fs.content = EmptyObject
    /\ lastOp.ret = None

\* the file is there and holds valid JSON
ValidJson(f) == f.file /\ json_load(f.content).ok

\* C11 as claimed: once the file is initialized its content is valid JSON in
\* every state, also after an operation whose write failed part-way: no
\* operation turns a valid file into an invalid one, and an operation that
\* creates the file leaves it valid.
C11_AlwaysValidJson ==
    [][/\ ValidJson(fs) => ValidJson(fs')
       /\ (~fs.file /\ fs'.file) => ValidJson(fs')]_vars

\* C23: a set(k, v) that succeeds changes key k only: get(k2) of every other
\* key k2 returns after the set what it returned before it, a value or None;
\* and the mapping read at the start of set is still as it was read when the
\* write of the new mapping fails, so the rollback writes the old mapping.
C23_SetChangesOnlyItsKey ==
    /\ (lastOp.op = "set" /\ lastOp.exc = "none") =>
          \A k2 \in {KeyNames[i] : i \in DOMAIN KeyNames} \ {lastOp.key} :
              /\ get_config(fs, k2, "none").exc = get_config(before, k2, "none").exc
              /\ get_config(fs, k2, "none").ret = get_config(before, k2, "none").ret
    /\ (lastOp.op = "set" /\ lastOp.wf # "none" /\ lastOp.rbf = "none") =>
          /\ lastOp.exc = "ConfigWriteException"
          /\ Loaded(fs) = Loaded(before)

\* a set of is_lxd_initialized succeeded on a store that held ssh_port, and
\* ssh_port reads as before
C23_Witness ==
    /\ lastOp.op = "set"
    /\ lastOp.exc = "none"
    /\ lastOp.key = "is_lxd_initialized"
    /\ get_config(before, "ssh_port", "none").ret = JStr("4050")
    /\ get_config(fs, "ssh_port", "none").ret = JStr("4050")
    /\ get_config(fs, "is_lxd_initialized", "none").ret = JStr(lastOp.value)
    /\ get_config(before, "is_lxd_initialized", "none").ret = None

====
